---- MODULE Spec2Model ----
(***************************************************************************)
(* SharkByte-Project: the note scheduling / edge detection loop of the     *)
(* "music sheet mover" player (src/metronomeApp.py), the Music Sheet       *)
(* Viewer of src/MusicCompanionApp.py and the metronome thread with its    *)
(* cooperative stop event.                                                 *)
(*                                                                         *)
(* Time is counted in tenths of a second (one tick = 0.1 s), so that the   *)
(* note times 0.5 s, 1.5 s ... of the documented scenario are integers.    *)
(* One iteration of a pygame loop is one action; it reads the wall clock   *)
(* once and handles at most one queued event.  The code uses time.time()   *)
(* only in differences taken inside one playback run, so the model puts    *)
(* the clock's origin at the start of the run: runs started at different   *)
(* wall-clock times are the same state.                                    *)
(***************************************************************************)
EXTENDS Integers, Sequences, FiniteSets, TLC

\* ------------------------------------------------------------------ bounds
\* last wall-clock tick the model follows
MaxNow == 40
\* longest time between two loop iterations, in ticks
MaxDt == 5

\* last wall-clock tick and longest iteration of the Music Sheet Viewer model,
\* whose ticks are half seconds
MaxViewerNow == 12
MaxViewerDt == 2

\* metronome threads that Start presses create in one behaviour
MaxThreads == 3

\* accent checkboxes ticked at once
MaxAccents == 2

\* characters typed into the beats entry
MaxEntryLen == 2

\* notes in a MIDI file given to load_midi
MaxFileNotes == 2

\* DAW: events recorded in one recording
MaxDawEvents == 3

\* ------------------------------------------------------- program constants
\* metronomeApp: "if 1 <= val <= 8"
BeatsLimit == 8
\* MusicCompanionApp: Spinbox(beats_frame, from_=1, to=12)
McaBeatsLimit == 12
\* music sheet mover: seconds to wait after reaching the end
END_WAIT_SECONDS == 3
\* MusicCompanionApp: END_WAIT_SECONDS = 2.0
MCA_END_WAIT_SECONDS == 2

\* ticks in s seconds
Ticks(s) == s * 10
\* viewer ticks (half seconds) in s seconds
HalfSeconds(s) == s * 2

VARIABLES
    \* ---- music sheet mover playback loop (src/metronomeApp.py 1630-1838)
    pc,                 \* position of the script: "restart", "playing", "menu", "exited"
    now,                \* time.time(), in ticks
    step,               \* the operation that produced this state
    notes,              \* list of [start, end, pitch]
    midi_end_time,
    dropdown_open,
    mapped_notes,       \* dict original pitch -> replacement pitch
    midi_out,           \* truthiness of midi_out
    fs_ready,           \* truthiness of (fs and sf2_path)
    app_active,
    running,
    start_time,
    end_timer_started,
    end_timer_start,
    prev_playing,
    exit_reason,
    current_time,       \* locals of the last loop iteration
    playing_pitches,
    new_on,
    new_off,
    sent,               \* backend calls of the last iteration: [op, src, out]
    on_count,           \* per note of the list: on-edges seen inside its interval in this run
    scen_step,          \* progress of the run along the documented scenario
    unmatched_on,       \* output pitches with a note-on of this run and no note-off after it
    \* ---- Music Sheet Viewer (src/MusicCompanionApp.py 655-859)
    mca_pc,             \* "sheet" inside run_music_sheet, "main" after Back, "quit"
    mca_now,            \* time.time(), in half seconds
    mca_step,           \* "frame" when the iteration drew the loaded file
    loaded_info,        \* "None", a file name, or "failed" (the tuple of Nones)
    is_playing,         \* globals()['is_playing'] ...
    play_start_time,
    paused_at,
    mca_prev_playing,
    mca_end_timer_started,
    mca_end_timer_start,
    mca_current_time,   \* locals of the last iteration
    mca_playing_pitches,
    mca_new_on,
    mca_sounds,         \* play_note_sound calls of the last iteration
    mca_finished,       \* the end-of-play branch stopped a playing run in this iteration
    \* ---- metronome (src/metronomeApp.py 51-118, src/MusicCompanionApp.py 91-153)
    met_app,            \* which of the two programs runs
    stop_event,         \* the global stop_event / _metronome_stop: 0 for None, else
                        \* the Event made for the thread of that number
    ev_set,             \* per Event: is_set()
    th_pc,              \* per thread: "unborn", "test", "tick", "wait", "finally", "done"
    ui_pc,              \* UI thread: "idle", or "starting" inside start_metronome
    spawned,            \* threads created so far
    met_running,        \* metronomeApp's global running
    beat_label,         \* metronomeApp's label text: "Ready", "Beat", "Stopped"
    late_ticks,         \* per thread: ticks (display update + click) made with its Event set
    final_runs,         \* per thread: runs of the finally block
    last_click,         \* thread of the latest click, 0 before the first
    interleaved,        \* an older thread clicked after a newer one had clicked
    \* ---- beats and accents of the metronome (metronomeApp.py 14-17, 51-76, 239-292;
    \*      MusicCompanionApp.py 91-109, 586-631)
    bt_app,             \* which program: "metronomeApp" or "MusicCompanionApp"
    num_beats,          \* metronomeApp's global num_beats / MusicCompanionApp's beats_var
    accented_beats,     \* the accent list (its elements; only membership is ever used)
    beats_entry,        \* text of beats_entry_settings, a sequence of characters
    apply_ret,          \* outcome of the latest apply_beats_setting, "none" before
    th_run,             \* a metronome thread is in its loop
    th_beats,           \* the thread's argument beats
    th_accents,         \* the thread's argument accented_beats (MusicCompanionApp)
    th_beat,            \* the thread's local beat
    tick_clicks,        \* play_click calls of the latest tick: sequence of "high" flags
    \* ---- DAW (src/daw.py)
    daw_running,        \* run()'s local running
    pressed,            \* self.pressed
    recording,          \* self.recording
    recorded_events,    \* self.recorded_events: sequence of [t, note, vel, kind]
    daw_midi,           \* latest midi_note_on / midi_note_off call, <<>> before the first
    saved_notes,        \* recording.mid: [written, notes], notes being the inst.notes written
    \* ---- load_midi (metronomeApp.py 1262-1279, MusicCompanionApp.py 156-178)
    ld_app,             \* which program's load_midi
    ld_notes,           \* the notes pretty_midi finds in the file, instruments concatenated
    ld_loaded,          \* load_midi has returned
    ld_info,            \* its result: [lowest, highest, end_time, num_keys]
    \* ---- parse_note_token (src/create_sheet.py 58-79)
    tk_token,           \* the token, a sequence of characters
    tk_parsed,          \* parse_note_token has returned
    tk_result           \* its result: [name, qlen]

moverVars == <<pc, now, step, notes, midi_end_time, dropdown_open,
               mapped_notes, midi_out, fs_ready, app_active, running, start_time,
               end_timer_started, end_timer_start, prev_playing, exit_reason,
               current_time, playing_pitches, new_on, new_off, sent, on_count,
               scen_step, unmatched_on>>

viewerVars == <<mca_pc, mca_now, mca_step, loaded_info, is_playing, play_start_time,
                paused_at, mca_prev_playing, mca_end_timer_started, mca_end_timer_start,
                mca_current_time, mca_playing_pitches, mca_new_on, mca_sounds,
                mca_finished>>

metroVars == <<met_app, stop_event, ev_set, th_pc, ui_pc, spawned, met_running,
               beat_label, late_ticks, final_runs, last_click, interleaved>>

beatVars == <<bt_app, num_beats, accented_beats, beats_entry, apply_ret, th_run,
              th_beats, th_accents, th_beat, tick_clicks>>

dawVars == <<daw_running, pressed, recording, recorded_events, daw_midi, saved_notes>>

\* the state of the programs modelled after the metronome thread
loadVars == <<ld_app, ld_notes, ld_loaded, ld_info>>

tokenVars == <<tk_token, tk_parsed, tk_result>>

restVars == <<beatVars, dawVars, loadVars, tokenVars>>

vars == <<moverVars, viewerVars, metroVars, restVars>>

\* ------------------------------------------------------------ MIDI files
Note(s, e, p) == [start |-> s, end |-> e, pitch |-> p]

\* the note list of the documented scenario: 0.0-1.0 s pitch 60, 0.5-1.5 s pitch 64
ScenarioNotes == <<Note(0, 10, 60), Note(5, 15, 64)>>
\* frame times of the documented scenario: 0.2, 0.7, 1.2, 1.6 s
ScenarioTimes == <<2, 7, 12, 16>>

\* the MIDI files of MIDI_DIR
Files == {"scenario.mid", "repeat.mid", "overlap.mid"}

\* pretty_midi's notes of a file, instruments concatenated
FileNotes(f) ==
    CASE f = "scenario.mid" -> ScenarioNotes
      [] f = "repeat.mid"   -> <<Note(1, 3, 60), Note(5, 7, 60), Note(6, 8, 64)>>
      [] f = "overlap.mid"  -> <<Note(0, 4, 60), Note(2, 6, 60)>>

MaxNotes == 3
NoteIdx == 1..MaxNotes

RECURSIVE MaxEndOf(_)
MaxEndOf(ns) ==
    IF ns = <<>> THEN 0
    ELSE LET r == MaxEndOf(Tail(ns)) IN IF Head(ns).end > r THEN Head(ns).end ELSE r

\* load_midi of the mover: (notes, midi_end_time); 60 s when the file has no note
load_midi(f) ==
    LET ns == FileNotes(f) IN
    [notes |-> ns, end_time |-> IF ns /= <<>> THEN MaxEndOf(ns) ELSE Ticks(60)]

\* the dicts the mapping screen can save, each a set of <<original, replacement>>
Mappings == { {}, {<<60, 72>>} }

\* p in mapped_notes
InMap(m, p) == \E e \in m : e[1] = p
\* mapped_notes[p]
MapAt(m, p) == (CHOOSE e \in m : e[1] = p)[2]
\* mapped_notes.get(p, d)
MapGet(m, p, d) == IF InMap(m, p) THEN MapAt(m, p) ELSE d

\* --------------------------------------------- the per-frame note algorithm
\* (a slip: the end bound forgotten)
PlayingPitchesNoEnd(ns, t) == {ns[i].pitch : i \in {j \in 1..Len(ns) : ns[j].start <= t}}

\* (a slip: the end bound exclusive)
PlayingPitchesOpenEnd(ns, t) ==
    {ns[i].pitch : i \in {j \in 1..Len(ns) : ns[j].start <= t /\ t < ns[j].end}}

\* the loop "for note in notes: if start <= current_time <= end: add(pitch)"
RECURSIVE PlayingPitches(_, _)
PlayingPitches(ns, t) ==
    IF ns = <<>> THEN {}
    ELSE (IF Head(ns).start <= t /\ t <= Head(ns).end THEN {Head(ns).pitch} ELSE {})
         \cup PlayingPitches(Tail(ns), t)

\* (a slip: new_off not reduced by the current set)
DiffOffAll(prev, playing) == [on |-> {p \in playing : p \notin prev}, off |-> prev]

\* (a slip: new_on not reduced by the previous set)
DiffOnAll(prev, playing) == [on |-> playing, off |-> {p \in prev : p \notin playing}]

\* new_on = playing_pitches - prev_playing; new_off = prev_playing - playing_pitches
Diff(prev, playing) ==
    [on  |-> {p \in playing : p \notin prev},
     off |-> {p \in prev : p \notin playing}]

\* (a slip: the previous set never stored)
StorePrevNever(playing) == {}

\* prev_playing = playing_pitches
StorePrev(playing) == playing

\* the note-on loops: MIDI out plays mapped pitches only, FluidSynth falls back
\* to the original pitch, without either nothing is sent
NoteOnCalls(mo, fsr, m, on) ==
    IF mo THEN {[op |-> "on", src |-> p, out |-> MapAt(m, p)] : p \in {q \in on : InMap(m, q)}}
    ELSE IF fsr THEN {[op |-> "on", src |-> p, out |-> MapGet(m, p, p)] : p \in on}
    ELSE {}

\* the note-off loops
NoteOffCalls(mo, fsr, m, off) ==
    IF mo THEN {[op |-> "off", src |-> p, out |-> MapAt(m, p)] : p \in {q \in off : InMap(m, q)}}
    ELSE IF fsr THEN {[op |-> "off", src |-> p, out |-> MapGet(m, p, p)] : p \in off}
    ELSE {}

\* ----------------------------------------------------- history of a run
NoCounts == [i \in NoteIdx |-> 0]

\* on-edges counted per note whose [start, end] holds the frame time (capped at 2)
CountOn(cnt, ns, t, on) ==
    [i \in NoteIdx |->
        IF i <= Len(ns) /\ ns[i].pitch \in on /\ ns[i].start <= t /\ t <= ns[i].end
        THEN (IF cnt[i] < 2 THEN cnt[i] + 1 ELSE 2)
        ELSE cnt[i]]

\* scen_step = k: the run has had exactly k frames, at the first k scenario times,
\* on the scenario's notes; 9 once the run has left the scenario
ScenOff == Len(ScenarioTimes) + 1
ScenNext(k, ns, t) ==
    IF k < Len(ScenarioTimes) /\ ns = ScenarioNotes /\ t = ScenarioTimes[k + 1]
    THEN k + 1 ELSE ScenOff

\* -------------------------------------------------------------- mover
MoverInit ==
    /\ pc = "restart"
    /\ now = 0
    /\ step = "init"
    /\ \E f \in Files : /\ notes = load_midi(f).notes
                         /\ midi_end_time = load_midi(f).end_time
    /\ dropdown_open = FALSE
    /\ mapped_notes \in Mappings
    /\ midi_out \in BOOLEAN
    /\ fs_ready \in BOOLEAN
    /\ app_active = TRUE
    /\ running = FALSE
    /\ start_time = 0
    /\ end_timer_started = FALSE
    /\ end_timer_start = 0
    /\ prev_playing = {}
    /\ exit_reason = "none"
    /\ current_time = 0
    /\ playing_pitches = {}
    /\ new_on = {}
    /\ new_off = {}
    /\ sent = {}
    /\ on_count = NoCounts
    /\ scen_step = ScenOff
    /\ unmatched_on = {}

MoverIdle == MoverInit /\ notes = ScenarioNotes /\ mapped_notes = {}
             /\ ~midi_out /\ ~fs_ready

\* "(re)start playback", the head of "while app_active"
Restart ==
    /\ pc = "restart"
    /\ pc' = "playing"
    /\ step' = "restart"
    /\ now' = 0
    /\ start_time' = 0
    /\ running' = TRUE
    /\ end_timer_started' = FALSE
    /\ end_timer_start' = 0
    /\ prev_playing' = {}
    /\ on_count' = NoCounts
    /\ scen_step' = 0
    /\ unmatched_on' = {}
    /\ UNCHANGED <<notes, midi_end_time, dropdown_open, mapped_notes,
                   midi_out, fs_ready, app_active, exit_reason, current_time,
                   playing_pitches, new_on, new_off, sent>>
    /\ UNCHANGED <<viewerVars, metroVars, restVars>>

\* the events one iteration can find queued
FrameEvents(dd) ==
    {[type |-> "none"], [type |-> "quit"], [type |-> "dropdown"]}
    \cup (IF dd THEN {[type |-> "item", file |-> f, ok |-> TRUE] : f \in Files}
                     \cup {[type |-> "item", file |-> "unreadable.mid", ok |-> FALSE]}
          ELSE {})

\* one iteration of "while running": events, sounding set, edges, backend
\* calls, end timer, and the exit of the loop when running became false
Frame(dt, ev) ==
    /\ pc = "playing"
    /\ now + dt <= MaxNow
    /\ LET clock   == now + dt
           t       == clock - start_time
           reload  == ev.type = "item"
           loaded  == IF reload /\ ev.ok THEN load_midi(ev.file)
                      ELSE [notes |-> notes, end_time |-> midi_end_time]
           playing == PlayingPitches(loaded.notes, t)
           d       == Diff(prev_playing, playing)
           arm     == t >= loaded.end_time /\ ~end_timer_started
           started == end_timer_started \/ arm
           tstart  == IF arm THEN clock ELSE end_timer_start
           fin     == started /\ clock - tstart >= Ticks(END_WAIT_SECONDS)
           run     == ev.type \notin {"quit", "item"} /\ ~fin
           active  == app_active /\ ev.type /= "quit"
           reason  == IF fin THEN "finished"
                      ELSE IF ev.type = "quit" THEN "quit"
                      ELSE IF reload THEN "reload" ELSE "none"
       IN  /\ now' = clock
           /\ step' = "frame"
           /\ current_time' = t
           /\ notes' = loaded.notes
           /\ midi_end_time' = loaded.end_time
           /\ dropdown_open' = IF ev.type = "dropdown" THEN ~dropdown_open
                                ELSE IF reload THEN FALSE ELSE dropdown_open
           /\ playing_pitches' = playing
           /\ new_on' = d.on
           /\ new_off' = d.off
           /\ sent' = NoteOnCalls(midi_out, fs_ready, mapped_notes, d.on)
                       \cup NoteOffCalls(midi_out, fs_ready, mapped_notes, d.off)
           /\ prev_playing' = StorePrev(playing)
           /\ end_timer_started' = started
           /\ end_timer_start' = tstart
           /\ running' = run
           /\ app_active' = active
           /\ exit_reason' = reason
           /\ on_count' = CountOn(IF loaded.notes = notes THEN on_count ELSE NoCounts,
                                   loaded.notes, t, d.on)
           /\ scen_step' = ScenNext(scen_step, loaded.notes, t)
           /\ unmatched_on' =
                  (unmatched_on
                   \cup {c.out : c \in NoteOnCalls(midi_out, fs_ready, mapped_notes, d.on)})
                  \ {c.out : c \in NoteOffCalls(midi_out, fs_ready, mapped_notes, d.off)}
           /\ pc' = IF run THEN "playing"
                     ELSE IF ~active THEN "exited"
                     ELSE IF reason = "reload" THEN "restart"
                     ELSE "menu"
    /\ UNCHANGED <<mapped_notes, midi_out, fs_ready, start_time>>
    /\ UNCHANGED <<viewerVars, metroVars, restVars>>

PlayFrame == \E dt \in 0..MaxDt : \E ev \in FrameEvents(dropdown_open) : Frame(dt, ev)

\* run_main_menu after a finished run: OK on a file, then load_midi, the SF2
\* selection and the mapping screen, then back to the head of the loop
MenuOK(f, ok, m, sf) ==
    /\ pc = "menu"
    /\ step' = "menu"
    /\ notes' = IF ok THEN load_midi(f).notes ELSE notes
    /\ midi_end_time' = IF ok THEN load_midi(f).end_time ELSE midi_end_time
    /\ mapped_notes' = IF ok THEN m ELSE mapped_notes
    /\ fs_ready' = IF ok THEN (fs_ready \/ sf) ELSE fs_ready
    /\ pc' = "restart"
    /\ UNCHANGED <<now, dropdown_open, midi_out, app_active, running, start_time,
                   end_timer_started, end_timer_start, prev_playing, exit_reason,
                   current_time, playing_pitches, new_on, new_off, sent, on_count,
                   scen_step, unmatched_on>>
    /\ UNCHANGED <<viewerVars, metroVars, restVars>>

MenuChoose ==
    \E f \in Files : \E ok \in BOOLEAN :
        \E m \in Mappings \cup {mapped_notes} : \E sf \in BOOLEAN : MenuOK(f, ok, m, sf)

\* Quit (or closing the window) in run_main_menu
MenuQuit ==
    /\ pc = "menu"
    /\ pc' = "exited"
    /\ step' = "menu"
    /\ UNCHANGED <<now, notes, midi_end_time, dropdown_open, mapped_notes,
                   midi_out, fs_ready, app_active, running, start_time, end_timer_started,
                   end_timer_start, prev_playing, exit_reason, current_time,
                   playing_pitches, new_on, new_off, sent, on_count, scen_step,
                   unmatched_on>>
    /\ UNCHANGED <<viewerVars, metroVars, restVars>>

MoverNext == Restart \/ PlayFrame \/ MenuChoose \/ MenuQuit

\* ------------------------------------------------- Music Sheet Viewer
\* the MIDI files of the viewer's MIDI_DIR, times in half seconds
ViewerFiles == {"short.mid", "long.mid"}
ViewerFileNotes(f) ==
    CASE f = "short.mid" -> <<Note(0, 1, 60), Note(2, 3, 64)>>
      [] f = "long.mid"  -> <<Note(1, 4, 60), Note(3, 5, 64)>>

\* load_midi of MusicCompanionApp: (notes, end_time), end_time from 0.0 upwards
mca_load_midi(f) ==
    LET ns == ViewerFileNotes(f) IN [notes |-> ns, end_time |-> MaxEndOf(ns)]

\* "loaded_info and loaded_info[0] is not None"
Loaded(li) == li \in ViewerFiles

ViewerInit ==
    /\ mca_pc = "sheet"
    /\ mca_now = 0
    /\ mca_step = "init"
    /\ loaded_info = "None"
    /\ is_playing = FALSE
    /\ play_start_time = 0
    /\ paused_at = 0
    /\ mca_prev_playing = {}
    /\ mca_end_timer_started = FALSE
    /\ mca_end_timer_start = 0
    /\ mca_current_time = 0
    /\ mca_playing_pitches = {}
    /\ mca_new_on = {}
    /\ mca_sounds = {}
    /\ mca_finished = FALSE

\* the clicks one iteration can find queued
ViewerEvents ==
    {[type |-> "none"], [type |-> "arrow"], [type |-> "play"], [type |-> "stop"],
     [type |-> "load", file |-> "unreadable.mid", ok |-> FALSE]}
    \cup {[type |-> "load", file |-> f, ok |-> TRUE] : f \in ViewerFiles}

\* one iteration of "while running" that is not left by Back or QUIT: the
\* click, then the drawing of the loaded file with the note-on detection and
\* the end-of-play handling
ViewerFrame(dt, ev) ==
    /\ mca_pc = "sheet"
    /\ mca_now + dt <= MaxViewerNow
    /\ LET clock  == mca_now + dt
           li     == CASE ev.type = "arrow" -> "None"
                       [] ev.type = "load" -> (IF ev.ok THEN ev.file ELSE "failed")
                       [] OTHER -> loaded_info
           prep   == ev.type = "load" /\ ev.ok /\ mca_load_midi(ev.file).notes /= <<>>
           doplay == ev.type = "play" /\ Loaded(li) /\ ~is_playing
           dostop == ev.type = "stop" /\ Loaded(li)
           play1  == IF doplay THEN TRUE ELSE IF prep \/ dostop THEN FALSE ELSE is_playing
           pst1   == IF doplay THEN clock - paused_at ELSE IF prep THEN 0 ELSE play_start_time
           pa1    == IF prep \/ dostop THEN 0 ELSE paused_at
       IN  /\ mca_now' = clock
           /\ loaded_info' = li
           /\ play_start_time' = pst1
           /\ IF Loaded(li)
              THEN LET info    == mca_load_midi(li)
                       t       == IF play1 THEN clock - pst1 ELSE pa1
                       playing == PlayingPitches(info.notes, t)
                       d       == Diff(mca_prev_playing, playing)
                       arm     == t >= info.end_time /\ ~mca_end_timer_started
                       started == mca_end_timer_started \/ arm
                       tstart  == IF arm THEN clock ELSE mca_end_timer_start
                       fin     == started /\ clock - tstart >= HalfSeconds(MCA_END_WAIT_SECONDS)
                   IN  /\ mca_step' = "frame"
                       /\ mca_current_time' = t
                       /\ mca_playing_pitches' = playing
                       /\ mca_new_on' = d.on
                       /\ mca_sounds' = d.on
                       /\ mca_prev_playing' = StorePrev(playing)
                       /\ mca_end_timer_started' = (started /\ ~fin)
                       /\ mca_end_timer_start' = tstart
                       /\ is_playing' = (play1 /\ ~fin)
                       /\ paused_at' = IF fin THEN 0 ELSE pa1
                       /\ mca_finished' = (fin /\ play1)
              ELSE /\ mca_step' = "idle"
                   /\ is_playing' = play1
                   /\ paused_at' = pa1
                   /\ mca_finished' = FALSE
                   /\ UNCHANGED <<mca_current_time, mca_playing_pitches, mca_new_on,
                                  mca_sounds, mca_prev_playing, mca_end_timer_started,
                                  mca_end_timer_start>>
    /\ UNCHANGED mca_pc
    /\ UNCHANGED <<moverVars, metroVars, restVars>>

ViewerIterate == \E dt \in 0..MaxViewerDt : \E ev \in ViewerEvents : ViewerFrame(dt, ev)

\* Back (return "main") or QUIT (return "quit"): the function returns at once
ViewerLeave(to) ==
    /\ mca_pc = "sheet"
    /\ mca_pc' = to
    /\ mca_step' = "left"
    /\ mca_finished' = FALSE
    /\ UNCHANGED <<mca_now, loaded_info, is_playing, play_start_time, paused_at,
                   mca_prev_playing, mca_end_timer_started, mca_end_timer_start,
                   mca_current_time, mca_playing_pitches, mca_new_on, mca_sounds>>
    /\ UNCHANGED <<moverVars, metroVars, restVars>>

ViewerBackOrQuit == \E to \in {"main", "quit"} : ViewerLeave(to)

\* "Music Sheet Viewer" chosen again in the main menu: the locals start afresh,
\* the globals() entries are kept
ViewerEnter(dt) ==
    /\ mca_pc = "main"
    /\ mca_now + dt <= MaxViewerNow
    /\ mca_now' = mca_now + dt
    /\ mca_pc' = "sheet"
    /\ mca_step' = "init"
    /\ loaded_info' = "None"
    /\ UNCHANGED <<is_playing, play_start_time, paused_at, mca_prev_playing,
                   mca_end_timer_started, mca_end_timer_start, mca_current_time,
                   mca_playing_pitches, mca_new_on, mca_sounds, mca_finished>>
    /\ UNCHANGED <<moverVars, metroVars, restVars>>

ViewerReenter == \E dt \in 0..MaxViewerDt : ViewerEnter(dt)

ViewerNext == ViewerIterate \/ ViewerBackOrQuit \/ ViewerReenter

\* ------------------------------------------------------------ metronome
ThreadIds == 1..MaxThreads
Apps == {"metronomeApp", "MusicCompanionApp"}

MetronomeInit ==
    /\ met_app \in Apps
    /\ stop_event = 0
    /\ ev_set = [i \in ThreadIds |-> FALSE]
    /\ th_pc = [i \in ThreadIds |-> "unborn"]
    /\ ui_pc = "idle"
    /\ spawned = 0
    /\ met_running = FALSE
    /\ beat_label = "Ready"
    /\ late_ticks = [i \in ThreadIds |-> 0]
    /\ final_runs = [i \in ThreadIds |-> 0]
    /\ last_click = 0
    /\ interleaved = FALSE

MetronomeIdle == MetronomeInit /\ met_app = "metronomeApp"

\* stop_event.set() on the Event the global names, if any
SetGlobalEvent == IF stop_event /= 0 THEN [ev_set EXCEPT ![stop_event] = TRUE] ELSE ev_set

Bump(f, i) == [f EXCEPT ![i] = IF f[i] < 2 THEN f[i] + 1 ELSE 2]

\* start_metronome, first half: "stop any existing metronome by setting the
\* stop_event" (metronomeApp then sleeps 0.05 s; the old thread is not joined)
StartPress ==
    /\ ui_pc = "idle"
    /\ spawned < MaxThreads
    /\ ui_pc' = "starting"
    /\ ev_set' = SetGlobalEvent
    /\ UNCHANGED <<met_app, stop_event, th_pc, spawned, met_running, beat_label,
                   late_ticks, final_runs, last_click, interleaved>>
    /\ UNCHANGED <<moverVars, viewerVars, restVars>>

\* start_metronome, second half: a fresh Event becomes the global, running is
\* set (metronomeApp) and the new thread is started
StartSpawn ==
    /\ ui_pc = "starting"
    /\ ui_pc' = "idle"
    /\ spawned' = spawned + 1
    /\ stop_event' = spawned + 1
    /\ th_pc' = [th_pc EXCEPT ![spawned + 1] = "test"]
    /\ met_running' = IF met_app = "metronomeApp" THEN TRUE ELSE met_running
    /\ UNCHANGED <<met_app, ev_set, beat_label, late_ticks, final_runs, last_click,
                   interleaved>>
    /\ UNCHANGED <<moverVars, viewerVars, restVars>>

\* stop_metronome: metronomeApp clears running and keeps the global Event,
\* MusicCompanionApp sets _metronome_stop to None
StopPress ==
    /\ ui_pc = "idle"
    /\ ev_set' = SetGlobalEvent
    /\ met_running' = IF met_app = "metronomeApp" THEN FALSE ELSE met_running
    /\ stop_event' = IF met_app = "metronomeApp" THEN stop_event ELSE 0
    /\ UNCHANGED <<met_app, th_pc, ui_pc, spawned, beat_label, late_ticks, final_runs,
                   last_click, interleaved>>
    /\ UNCHANGED <<moverVars, viewerVars, restVars>>

\* (a slip: the flag never looked at)
LoopForever(i) == TRUE

\* "while not stop_event.is_set()"
LoopContinues(i) == ~ev_set[i]

\* the loop test of thread i
Test(i) ==
    /\ th_pc[i] = "test"
    /\ th_pc' = [th_pc EXCEPT ![i] = IF LoopContinues(i) THEN "tick" ELSE "finally"]
    /\ UNCHANGED <<met_app, stop_event, ev_set, ui_pc, spawned, met_running, beat_label,
                   late_ticks, final_runs, last_click, interleaved>>
    /\ UNCHANGED <<moverVars, viewerVars, restVars>>

\* the loop body of thread i: beat display update, click, beat advanced
Tick(i) ==
    /\ th_pc[i] = "tick"
    /\ th_pc' = [th_pc EXCEPT ![i] = "wait"]
    /\ beat_label' = IF met_app = "metronomeApp" THEN "Beat" ELSE beat_label
    /\ late_ticks' = IF ev_set[i] THEN Bump(late_ticks, i) ELSE late_ticks
    /\ interleaved' = (interleaved \/ last_click > i)
    /\ last_click' = i
    /\ UNCHANGED <<met_app, stop_event, ev_set, ui_pc, spawned, met_running, final_runs>>
    /\ UNCHANGED <<moverVars, viewerVars, restVars>>

\* metronomeApp's loop body catches nothing: a widget or audio call that
\* raises leaves the loop through the finally block
TickRaises(i) ==
    /\ th_pc[i] = "tick"
    /\ met_app = "metronomeApp"
    /\ th_pc' = [th_pc EXCEPT ![i] = "finally"]
    /\ UNCHANGED <<met_app, stop_event, ev_set, ui_pc, spawned, met_running, beat_label,
                   late_ticks, final_runs, last_click, interleaved>>
    /\ UNCHANGED <<moverVars, viewerVars, restVars>>

\* stop_event.wait(interval) returns, by the Event or by the timeout
Wait(i) ==
    /\ th_pc[i] = "wait"
    /\ th_pc' = [th_pc EXCEPT ![i] = "test"]
    /\ UNCHANGED <<met_app, stop_event, ev_set, ui_pc, spawned, met_running, beat_label,
                   late_ticks, final_runs, last_click, interleaved>>
    /\ UNCHANGED <<moverVars, viewerVars, restVars>>

\* the finally block: running = False and label "Stopped" (metronomeApp),
\* beat_callback(False) (MusicCompanionApp); the thread ends
Finally(i) ==
    /\ th_pc[i] = "finally"
    /\ th_pc' = [th_pc EXCEPT ![i] = "done"]
    /\ final_runs' = Bump(final_runs, i)
    /\ met_running' = IF met_app = "metronomeApp" THEN FALSE ELSE met_running
    /\ beat_label' = IF met_app = "metronomeApp" THEN "Stopped" ELSE beat_label
    /\ UNCHANGED <<met_app, stop_event, ev_set, ui_pc, spawned, late_ticks, last_click,
                   interleaved>>
    /\ UNCHANGED <<moverVars, viewerVars, restVars>>

ThreadStep(i) == Test(i) \/ Tick(i) \/ TickRaises(i) \/ Wait(i) \/ Finally(i)

MetronomeNext ==
    \/ StartPress
    \/ StartSpawn
    \/ StopPress
    \/ \E i \in ThreadIds : Test(i)
    \/ \E i \in ThreadIds : Tick(i)
    \/ \E i \in ThreadIds : TickRaises(i)
    \/ \E i \in ThreadIds : Wait(i)
    \/ \E i \in ThreadIds : Finally(i)

\* ------------------------------------------------------ beats and accents
\* (a slip: the accent is always on the first beat)
HighOnFirstBeat(beat, accents) == beat = 1

\* the argument of play_click: "if beat in accented_beats: play_click(high=True)
\* else: play_click(high=False)"; _play_click(high=(beat in accented_beats))
HighClick(beat, accents) == beat \in accents

\* metronomeApp's "for i in range(beats)": the clicks of the labels i .. beats
RECURSIVE EmojiLoop(_, _, _, _)
EmojiLoop(i, beat, beats, accents) ==
    IF i > beats THEN <<>>
    ELSE (IF i = beat THEN <<HighClick(beat, accents)>> ELSE <<>>)
         \o EmojiLoop(i + 1, beat, beats, accents)

\* the play_click calls of one pass through the loop body
TickClicks(app, beat, beats, accents) ==
    IF app = "metronomeApp" THEN EmojiLoop(1, beat, beats, accents)
    ELSE <<HighClick(beat, accents)>>

\* "beat = (beat % beats) + 1"
NextBeat(beat, beats) == (beat % beats) + 1

\* the checkbox selections the model follows for n beats
AccentChoices(n) == {A \in SUBSET (1..n) : Cardinality(A) <= MaxAccents}

\* metronomeApp reads the global accented_beats at every tick, MusicCompanionApp's
\* thread has the list it was started with
AccentsConsulted == IF bt_app = "metronomeApp" THEN accented_beats ELSE th_accents

\* the state at program start: num_beats = 4, accented_beats = [1], entry "4"
BeatIdle ==
    /\ bt_app = "metronomeApp"
    /\ num_beats = 4
    /\ accented_beats = {1}
    /\ beats_entry = <<"4">>
    /\ apply_ret = "none"
    /\ th_run = FALSE
    /\ th_beats = 0
    /\ th_accents = {}
    /\ th_beat = 0
    /\ tick_clicks = <<>>

\* the settings a user has reached before pressing Start: metronomeApp's
\* num_beats is 1..8 and the accents are boxes of the num_beats checkboxes;
\* MusicCompanionApp's beats_var is what the Spinbox holds (0 can be typed) and
\* there are max(1, beats) checkboxes
BeatInit ==
    /\ bt_app \in Apps
    /\ num_beats \in (IF bt_app = "metronomeApp" THEN 1..BeatsLimit ELSE 0..McaBeatsLimit)
    /\ accented_beats \in AccentChoices(IF num_beats < 1 THEN 1 ELSE num_beats)
    /\ beats_entry = <<"4">>
    /\ apply_ret = "none"
    /\ th_run = FALSE
    /\ th_beats = 0
    /\ th_accents = {}
    /\ th_beat = 0
    /\ tick_clicks = <<>>

\* Start with no metronome running: beats = num_beats (int(beats_var.get())),
\* MusicCompanionApp passes the ticked boxes, beat = 1
BeatStart ==
    /\ ~th_run
    /\ th_run' = TRUE
    /\ th_beats' = num_beats
    /\ th_accents' = IF bt_app = "metronomeApp" THEN {} ELSE accented_beats
    /\ th_beat' = 1
    /\ tick_clicks' = <<>>
    /\ UNCHANGED <<bt_app, num_beats, accented_beats, beats_entry, apply_ret>>
    /\ UNCHANGED <<moverVars, viewerVars, metroVars, dawVars, loadVars, tokenVars>>

\* one pass through the loop body; with beats = 0 (MusicCompanionApp) the
\* modulo raises after the click and the thread ends through finally
BeatTick ==
    /\ th_run
    /\ tick_clicks' = TickClicks(bt_app, th_beat, th_beats, AccentsConsulted)
    /\ IF th_beats = 0
       THEN th_run' = FALSE /\ th_beat' = th_beat
       ELSE th_run' = TRUE /\ th_beat' = NextBeat(th_beat, th_beats)
    /\ UNCHANGED <<bt_app, num_beats, accented_beats, beats_entry, apply_ret, th_beats,
                   th_accents>>
    /\ UNCHANGED <<moverVars, viewerVars, metroVars, dawVars, loadVars, tokenVars>>

\* Stop: the thread leaves its loop
BeatStop ==
    /\ th_run
    /\ th_run' = FALSE
    /\ th_beats' = 0
    /\ th_accents' = {}
    /\ th_beat' = 0
    /\ tick_clicks' = <<>>
    /\ UNCHANGED <<bt_app, num_beats, accented_beats, beats_entry, apply_ret>>
    /\ UNCHANGED <<moverVars, viewerVars, metroVars, dawVars, loadVars, tokenVars>>

\* metronomeApp's save_accents: the ticked boxes become accented_beats
save_accents(A) ==
    /\ bt_app = "metronomeApp"
    /\ accented_beats' = A
    /\ UNCHANGED <<bt_app, num_beats, beats_entry, apply_ret, th_run, th_beats,
                   th_accents, th_beat, tick_clicks>>
    /\ UNCHANGED <<moverVars, viewerVars, metroVars, dawVars, loadVars, tokenVars>>

SaveAccents == \E A \in AccentChoices(num_beats) : save_accents(A)

BeatNext == BeatStart \/ BeatTick \/ BeatStop \/ SaveAccents

\* ---- the beats entry of the settings screen
Digits == {"0", "1", "2", "3", "4", "5", "6", "7", "8", "9"}
DigitValue ==
    ("0" :> 0) @@ ("1" :> 1) @@ ("2" :> 2) @@ ("3" :> 3) @@ ("4" :> 4) @@
    ("5" :> 5) @@ ("6" :> 6) @@ ("7" :> 7) @@ ("8" :> 8) @@ ("9" :> 9)

\* the characters the model types, and the texts of up to MaxEntryLen of them
EntryChars == {"0", "2", "8", "9", "-", " ", "a"}
Entries == UNION {[1..n -> EntryChars] : n \in 0..MaxEntryLen}

\* str.strip()
RECURSIVE LStrip(_)
LStrip(cs) == IF cs /= <<>> /\ Head(cs) = " " THEN LStrip(Tail(cs)) ELSE cs
RECURSIVE RStrip(_)
RStrip(cs) ==
    IF cs /= <<>> /\ cs[Len(cs)] = " " THEN RStrip(SubSeq(cs, 1, Len(cs) - 1)) ELSE cs

\* the value of a digit string, most significant digit first
RECURSIVE DigitsValue(_, _)
DigitsValue(cs, acc) ==
    IF cs = <<>> THEN acc ELSE DigitsValue(Tail(cs), acc * 10 + DigitValue[Head(cs)])

\* int(text): blanks stripped, an optional sign, then one or more digits;
\* anything else raises ValueError
ParseInt(text) ==
    LET cs == RStrip(LStrip(text))
        signed == cs /= <<>> /\ Head(cs) \in {"-", "+"}
        ds == IF signed THEN Tail(cs) ELSE cs
    IN  IF ds /= <<>> /\ \A k \in 1..Len(ds) : ds[k] \in Digits
        THEN [ok |-> TRUE,
              val |-> IF signed /\ Head(cs) = "-" THEN 0 - DigitsValue(ds, 0)
                      ELSE DigitsValue(ds, 0)]
        ELSE [ok |-> FALSE, val |-> 0]

\* tk.messagebox.showerror(...) followed by "return False": the module imports
\* tkinter and tkinter.font only, so tk.messagebox exists only if something
\* else in the process has imported tkinter.messagebox; without it the
\* attribute lookup raises AttributeError and nothing is returned
ShowErrorOutcomes == {"False", "AttributeError"}

\* "if 1 <= val <= 8"
InRange(val) == 1 <= val /\ val <= BeatsLimit

\* the user edits the beats entry
TypeEntry(text) ==
    /\ bt_app = "metronomeApp"
    /\ beats_entry' = text
    /\ UNCHANGED <<bt_app, num_beats, accented_beats, apply_ret, th_run, th_beats,
                   th_accents, th_beat, tick_clicks>>
    /\ UNCHANGED <<moverVars, viewerVars, metroVars, dawVars, loadVars, tokenVars>>

\* apply_beats_setting (called by Save & Back and by Configure Accents)
apply_beats_setting(outcome) ==
    /\ bt_app = "metronomeApp"
    /\ LET r == ParseInt(beats_entry) IN
       IF r.ok /\ InRange(r.val)
       THEN /\ num_beats' = r.val
            /\ accented_beats' = {b \in accented_beats : 1 <= b /\ b <= r.val}
            /\ apply_ret' = "True"
       ELSE /\ apply_ret' = outcome
            /\ UNCHANGED <<num_beats, accented_beats>>
    /\ UNCHANGED <<bt_app, beats_entry, th_run, th_beats, th_accents, th_beat,
                   tick_clicks>>
    /\ UNCHANGED <<moverVars, viewerVars, metroVars, dawVars, loadVars, tokenVars>>

EditEntry == \E text \in Entries : TypeEntry(text)
ApplyBeats == \E outcome \in ShowErrorOutcomes : apply_beats_setting(outcome)

SettingsNext == EditEntry \/ ApplyBeats \/ SaveAccents

\* ------------------------------------------------------------------ DAW
START_MIDI_NOTE == 60

\* computer keys -> semitone offsets
KEYBOARD_MAP ==
    ("z" :> 0) @@ ("s" :> 1) @@ ("x" :> 2) @@ ("d" :> 3) @@ ("c" :> 4) @@ ("v" :> 5) @@
    ("g" :> 6) @@ ("b" :> 7) @@ ("h" :> 8) @@ ("n" :> 9) @@ ("j" :> 10) @@ ("m" :> 11) @@
    ("q" :> 12) @@ ("2" :> 13) @@ ("w" :> 14) @@ ("3" :> 15) @@ ("e" :> 16)

\* the keys the model presses and the white key the mouse clicks
DawKeys == {"z", "s", "x", "r", "ESCAPE"}
DawMouseKeys == {0}

\* a recorded event (time_from_start, note, velocity, on_off).  The code only
\* copies and never compares the times, so a time is represented by the ordinal
\* of its clock reading within the recording.
Event(t, note, vel, kind) == [t |-> t, note |-> note, vel |-> vel, kind |-> kind]
ClockReading == Len(recorded_events) + 1

\* (a slip: the recording flag ignored)
RecordAlways(events, rec, ev) == Append(events, ev)

\* "if self.recording: ... self.recorded_events.append(...)"
Record(events, rec, ev) == IF rec THEN Append(events, ev) ELSE events

DawInit ==
    /\ daw_running = TRUE
    /\ pressed = {}
    /\ recording = FALSE
    /\ recorded_events = <<>>
    /\ daw_midi = <<>>
    /\ saved_notes = [written |-> FALSE, notes |-> <<>>]

DawIdle == DawInit

\* room for one more recorded event
DawRoom == recording => Len(recorded_events) < MaxDawEvents

play_note(midi_note) ==
    /\ DawRoom
    /\ pressed' = pressed \cup {midi_note}
    /\ daw_midi' = <<"note_on", midi_note, 100>>
    /\ recorded_events' = Record(recorded_events, recording,
                                 Event(ClockReading, midi_note, 100, "on"))
    /\ UNCHANGED <<daw_running, recording, saved_notes>>

stop_note(midi_note) ==
    /\ DawRoom
    /\ pressed' = pressed \ {midi_note}
    /\ daw_midi' = <<"note_off", midi_note, 0>>
    /\ recorded_events' = Record(recorded_events, recording,
                                 Event(ClockReading, midi_note, 0, "off"))
    /\ UNCHANGED <<daw_running, recording, saved_notes>>

\* a pretty_midi.Note
PmNote(vel, pitch, start, end) == [velocity |-> vel, pitch |-> pitch, start |-> start, end |-> end]

\* notes that can appear in recorded events
DawNotes == START_MIDI_NOTE .. (START_MIDI_NOTE + 16)

\* the pairing loop of midi_save_recording from event i on: on_stack maps a note
\* to its list of (t, vel), an "on" is appended, an "off" takes on_stack[note].pop(0)
RECURSIVE PairLoop(_, _, _, _)
PairLoop(events, i, on_stack, inst_notes) ==
    IF i > Len(events) THEN inst_notes
    ELSE LET e == events[i] IN
         IF e.kind = "on"
         THEN PairLoop(events, i + 1,
                       [on_stack EXCEPT ![e.note] = Append(@, <<e.t, e.vel>>)], inst_notes)
         ELSE IF on_stack[e.note] /= <<>>
              THEN PairLoop(events, i + 1,
                            [on_stack EXCEPT ![e.note] = Tail(@)],
                            Append(inst_notes,
                                   PmNote(Head(on_stack[e.note])[2], e.note,
                                          Head(on_stack[e.note])[1], e.t)))
              ELSE PairLoop(events, i + 1, on_stack, inst_notes)

\* midi_save_recording: the notes written, or the file left as it is when
\* nothing was recorded
midi_save_recording(events, file) ==
    IF events = <<>> THEN file
    ELSE [written |-> TRUE, notes |-> PairLoop(events, 1, [n \in DawNotes |-> <<>>], <<>>)]

\* KEYDOWN R
DawToggleRecording ==
    /\ recording' = ~recording
    /\ recorded_events' = IF ~recording THEN <<>> ELSE recorded_events
    /\ UNCHANGED <<daw_running, pressed, daw_midi, saved_notes>>

\* KEYDOWN S
DawSave ==
    /\ saved_notes' = midi_save_recording(recorded_events, saved_notes)
    /\ UNCHANGED <<daw_running, pressed, recording, recorded_events, daw_midi>>

\* KEYDOWN X: export_recording_to_musicxml reads recording.mid
DawExport == UNCHANGED dawVars

\* one KEYDOWN event of run()
KeyDown(key) ==
    /\ daw_running
    /\ IF key = "ESCAPE" THEN /\ daw_running' = FALSE
                              /\ UNCHANGED <<pressed, recording, recorded_events,
                                             daw_midi, saved_notes>>
       ELSE IF key = "r" THEN DawToggleRecording
       ELSE IF key = "s" THEN DawSave
       ELSE IF key = "x" THEN DawExport
       ELSE IF key \in DOMAIN KEYBOARD_MAP
            THEN play_note(START_MIDI_NOTE + KEYBOARD_MAP[key])
            ELSE UNCHANGED dawVars
    /\ UNCHANGED <<moverVars, viewerVars, metroVars, beatVars, loadVars, tokenVars>>

\* one KEYUP event of run()
KeyUp(key) ==
    /\ daw_running
    /\ IF key \in DOMAIN KEYBOARD_MAP
       THEN stop_note(START_MIDI_NOTE + KEYBOARD_MAP[key])
       ELSE UNCHANGED dawVars
    /\ UNCHANGED <<moverVars, viewerVars, metroVars, beatVars, loadVars, tokenVars>>

\* MOUSEBUTTONDOWN / MOUSEBUTTONUP over white key key_index
MouseDown(key_index) ==
    /\ daw_running
    /\ play_note(START_MIDI_NOTE + key_index)
    /\ UNCHANGED <<moverVars, viewerVars, metroVars, beatVars, loadVars, tokenVars>>

MouseUp(key_index) ==
    /\ daw_running
    /\ stop_note(START_MIDI_NOTE + key_index)
    /\ UNCHANGED <<moverVars, viewerVars, metroVars, beatVars, loadVars, tokenVars>>

\* pygame.QUIT
DawQuit ==
    /\ daw_running
    /\ daw_running' = FALSE
    /\ UNCHANGED <<pressed, recording, recorded_events, daw_midi, saved_notes>>
    /\ UNCHANGED <<moverVars, viewerVars, metroVars, beatVars, loadVars, tokenVars>>

DawKeyDown == \E key \in DawKeys : KeyDown(key)
DawKeyUp == \E key \in DawKeys : KeyUp(key)
DawMouseDown == \E k \in DawMouseKeys : MouseDown(k)
DawMouseUp == \E k \in DawMouseKeys : MouseUp(k)

DawNext == DawKeyDown \/ DawKeyUp \/ DawMouseDown \/ DawMouseUp \/ DawQuit

\* ------------------------------------------------------------ load_midi
\* notes a file can hold: MIDI pitches 0..127, 0 <= start <= end (in ticks)
LoadPitches == {0, 60, 61, 127}
LoadSpans == {<<0, 0>>, <<0, 10>>, <<5, 25>>}
LoadNoteChoices == {Note(sp[1], sp[2], p) : sp \in LoadSpans, p \in LoadPitches}

Min2(a, b) == IF a < b THEN a ELSE b
Max2(a, b) == IF a > b THEN a ELSE b

\* MusicCompanionApp: the loop "lowest = min(lowest, n.pitch); highest =
\* max(highest, n.pitch); end_time = max(end_time, n.end)" over the notes
RECURSIVE McaScan(_, _, _, _)
McaScan(ns, lowest, highest, end_time) ==
    IF ns = <<>> THEN [lowest |-> lowest, highest |-> highest, end_time |-> end_time]
    ELSE McaScan(Tail(ns), Min2(lowest, Head(ns).pitch), Max2(highest, Head(ns).pitch),
                 Max2(end_time, Head(ns).end))

\* (a slip: a file of one pitch taken for a file without notes)
McaNoRangeOrOne(lowest, highest) == lowest >= highest

\* "if lowest > highest"
McaNoRange(lowest, highest) == lowest > highest

\* MusicCompanionApp's load_midi: lowest = 127, highest = 0, end_time = 0.0 before
\* the loop, 60..72 when the loop left lowest > highest
mca_load_midi_info(ns) ==
    LET r == McaScan(ns, 127, 0, 0)
        lowest == IF McaNoRange(r.lowest, r.highest) THEN 60 ELSE r.lowest
        highest == IF McaNoRange(r.lowest, r.highest) THEN 72 ELSE r.highest
    IN  [lowest |-> lowest, highest |-> highest, end_time |-> r.end_time,
         num_keys |-> highest - lowest + 1]

\* min(n['pitch'] for n in notes_local), max(...)
RECURSIVE MinPitchOf(_)
MinPitchOf(ns) ==
    IF Len(ns) = 1 THEN Head(ns).pitch ELSE Min2(Head(ns).pitch, MinPitchOf(Tail(ns)))
RECURSIVE MaxPitchOf(_)
MaxPitchOf(ns) ==
    IF Len(ns) = 1 THEN Head(ns).pitch ELSE Max2(Head(ns).pitch, MaxPitchOf(Tail(ns)))

\* the mover's load_midi: min / max over the notes, 21..108 and 60 s without notes
load_midi_info(ns) ==
    LET lowest == IF ns /= <<>> THEN MinPitchOf(ns) ELSE 21
        highest == IF ns /= <<>> THEN MaxPitchOf(ns) ELSE 108
    IN  [lowest |-> lowest, highest |-> highest,
         end_time |-> IF ns /= <<>> THEN MaxEndOf(ns) ELSE Ticks(60),
         num_keys |-> highest - lowest + 1]

NoInfo == [lowest |-> 0, highest |-> 0, end_time |-> 0, num_keys |-> 0]

LoadInit ==
    /\ ld_app \in Apps
    /\ ld_notes = <<>>
    /\ ld_loaded = FALSE
    /\ ld_info = NoInfo

LoadIdle == LoadInit /\ ld_app = "metronomeApp"

\* the file to be loaded holds one more note
FileNote(n) ==
    /\ ~ld_loaded
    /\ Len(ld_notes) < MaxFileNotes
    /\ ld_notes' = Append(ld_notes, n)
    /\ UNCHANGED <<ld_app, ld_loaded, ld_info>>
    /\ UNCHANGED <<moverVars, viewerVars, metroVars, beatVars, dawVars, tokenVars>>

FileGrows == \E n \in LoadNoteChoices : FileNote(n)

\* load_midi(path) returns
LoadFile ==
    /\ ~ld_loaded
    /\ ld_loaded' = TRUE
    /\ ld_info' = IF ld_app = "metronomeApp" THEN load_midi_info(ld_notes)
                  ELSE mca_load_midi_info(ld_notes)
    /\ UNCHANGED <<ld_app, ld_notes>>
    /\ UNCHANGED <<moverVars, viewerVars, metroVars, beatVars, dawVars, tokenVars>>

\* another file is selected
SelectFile ==
    /\ ld_loaded
    /\ ld_loaded' = FALSE
    /\ ld_notes' = <<>>
    /\ ld_info' = NoInfo
    /\ UNCHANGED ld_app
    /\ UNCHANGED <<moverVars, viewerVars, metroVars, beatVars, dawVars, tokenVars>>

LoadNext == FileGrows \/ LoadFile \/ SelectFile

\* ----------------------------------------------------- parse_note_token
\* A quarterLength is a float; it is counted in hundredths of a quarter note,
\* and the floats that are no numbers are named: [special, val].
Qlen(hundredths) == [special |-> "no", val |-> hundredths]
SpecialQlen(name) == [special |-> name, val |-> 0]

\* the NAME parts and the DURATION parts tokens are made of
TokenNames == {<<"C", "4">>, <<" ", "C", "4">>, <<"G", "#", "3", " ">>, <<" ", "B", "-", "2", " ">>, <<>>, <<"c", "5">>, <<"E", " ", "4">>}
TokenDurations == {<<"w", "h", "o", "l", "e">>,
                   <<"h", "a", "l", "f">>,
                   <<"q", "u", "a", "r", "t", "e", "r">>,
                   <<"e", "i", "g", "h", "t", "h">>,
                   <<"s", "i", "x", "t", "e", "e", "n", "t", "h">>,
                   <<" ", "W", "H", "O", "L", "E", " ">>,
                   <<"H", "a", "l", "f">>,
                   <<"S", "i", "x", "t", "e", "e", "n", "t", "h">>,
                   <<"0", ".", "5">>,
                   <<" ", "0", ".", "2", "5", " ">>,
                   <<"2">>,
                   <<"-", "1">>,
                   <<".", "5">>,
                   <<"a", "b", "c">>,
                   <<>>,
                   <<"h", "a", "l", "f", ":", "x">>,
                   <<"i", "n", "f">>,
                   <<"N", "a", "N">>,
                   <<"q">>}
\* NAME alone and NAME:DURATION
Tokens == TokenNames \cup {n \o <<":">> \o d : n \in TokenNames, d \in TokenDurations}

\* (a slip: the split made at the last ':')
LastColon(token) ==
    IF \E k \in 1..Len(token) : token[k] = ":"
    THEN CHOOSE k \in 1..Len(token) :
             token[k] = ":" /\ \A j \in (k + 1)..Len(token) : token[j] /= ":"
    ELSE 0

\* token.split(':', 1): the place of the first ':', 0 when "':' in token" is false
FirstColon(token) ==
    IF \E k \in 1..Len(token) : token[k] = ":"
    THEN CHOOSE k \in 1..Len(token) : token[k] = ":" /\ \A j \in 1..(k - 1) : token[j] /= ":"
    ELSE 0

Strip(cs) == RStrip(LStrip(cs))

UpperToLower ==
    ("A" :> "a") @@ ("B" :> "b") @@ ("C" :> "c") @@ ("D" :> "d") @@ ("E" :> "e") @@
    ("F" :> "f") @@ ("G" :> "g") @@ ("H" :> "h") @@ ("I" :> "i") @@ ("J" :> "j") @@
    ("K" :> "k") @@ ("L" :> "l") @@ ("M" :> "m") @@ ("N" :> "n") @@ ("O" :> "o") @@
    ("P" :> "p") @@ ("Q" :> "q") @@ ("R" :> "r") @@ ("S" :> "s") @@ ("T" :> "t") @@
    ("U" :> "u") @@ ("V" :> "v") @@ ("W" :> "w") @@ ("X" :> "x") @@ ("Y" :> "y") @@
    ("Z" :> "z")

\* str.lower()
Lower(cs) ==
    [k \in 1..Len(cs) |-> IF cs[k] \in DOMAIN UpperToLower THEN UpperToLower[cs[k]] ELSE cs[k]]

AllDigits(cs) == \A k \in 1..Len(cs) : cs[k] \in Digits

\* the hundredths in the digits after the point (two of them are kept)
Hundredths(frac) ==
    (IF Len(frac) >= 1 THEN 10 * DigitValue[frac[1]] ELSE 0)
    + (IF Len(frac) >= 2 THEN DigitValue[frac[2]] ELSE 0)

\* float(text): blanks stripped, an optional sign, then inf / infinity / nan in
\* any case, or digits with at most one point and at least one digit; anything
\* else raises ValueError (ok = FALSE).  Exponents and underscores are not
\* among the tokens followed.
ParseFloat(text) ==
    LET cs == Strip(text)
        signed == cs /= <<>> /\ Head(cs) \in {"-", "+"}
        neg == signed /\ Head(cs) = "-"
        body == IF signed THEN Tail(cs) ELSE cs
        word == Lower(body)
        point == IF \E k \in 1..Len(body) : body[k] = "."
                 THEN CHOOSE k \in 1..Len(body) : body[k] = "." ELSE 0
        whole == IF point = 0 THEN body ELSE SubSeq(body, 1, point - 1)
        frac == IF point = 0 THEN <<>> ELSE SubSeq(body, point + 1, Len(body))
        mag == 100 * DigitsValue(whole, 0) + Hundredths(frac)
    IN  IF word \in {<<"i", "n", "f">>, <<"i", "n", "f", "i", "n", "i", "t", "y">>}
        THEN [ok |-> TRUE, qlen |-> SpecialQlen(IF neg THEN "-inf" ELSE "inf")]
        ELSE IF word = <<"n", "a", "n">>
        THEN [ok |-> TRUE, qlen |-> SpecialQlen("nan")]
        ELSE IF AllDigits(whole) /\ AllDigits(frac) /\ Len(whole) + Len(frac) >= 1
        THEN [ok |-> TRUE, qlen |-> Qlen(IF neg THEN 0 - mag ELSE mag)]
        ELSE [ok |-> FALSE, qlen |-> Qlen(0)]

\* mapping.get(word, 1.0)
MappingGet(word) ==
    CASE word = <<"w", "h", "o", "l", "e">> -> Qlen(400)
      [] word = <<"h", "a", "l", "f">> -> Qlen(200)
      [] word = <<"q", "u", "a", "r", "t", "e", "r">> -> Qlen(100)
      [] word = <<"e", "i", "g", "h", "t", "h">> -> Qlen(50)
      [] word = <<"s", "i", "x", "t", "e", "e", "n", "t", "h">> -> Qlen(25)
      [] OTHER -> Qlen(100)

\* parse_note_token(token)
parse_note_token(token) ==
    LET k == FirstColon(token)
        name == IF k > 0 THEN SubSeq(token, 1, k - 1) ELSE token
        dur == IF k > 0 THEN SubSeq(token, k + 1, Len(token)) ELSE <<"q", "u", "a", "r", "t", "e", "r">>
        r == ParseFloat(Strip(dur))
    IN  [name |-> Strip(name),
         qlen |-> IF r.ok THEN r.qlen ELSE MappingGet(Lower(Strip(dur)))]

NoResult == [name |-> <<>>, qlen |-> Qlen(0)]

TokenInit ==
    /\ tk_token = <<>>
    /\ tk_parsed = FALSE
    /\ tk_result = NoResult

TokenIdle == TokenInit

\* build_score_from_tokens takes the next token: name, qlen = parse_note_token(tok)
ParseToken(token) ==
    /\ tk_token' = token
    /\ tk_parsed' = TRUE
    /\ tk_result' = parse_note_token(token)
    /\ UNCHANGED <<moverVars, viewerVars, metroVars, beatVars, dawVars, loadVars>>

TokenNext == \E token \in Tokens : ParseToken(token)

\* --------------------------------------------------------- specifications
\* everything after the metronome thread, at program start
RestIdle == BeatIdle /\ DawIdle /\ LoadIdle /\ TokenIdle

Init == MoverInit /\ ViewerInit /\ MetronomeIdle /\ RestIdle
Next == MoverNext
Spec == Init /\ [][Next]_vars

InitViewer == MoverIdle /\ ViewerInit /\ MetronomeIdle /\ RestIdle
SpecViewer == InitViewer /\ [][ViewerNext]_vars

\* a started thread is scheduled again and again
InitMetronome == MoverIdle /\ ViewerInit /\ MetronomeInit /\ RestIdle
SpecMetronome ==
    InitMetronome /\ [][MetronomeNext]_vars /\ \A i \in ThreadIds : WF_vars(ThreadStep(i))

\* the metronome's beats and accents, one thread at a time
InitBeats == MoverIdle /\ ViewerInit /\ MetronomeIdle /\ BeatInit /\ DawIdle /\ LoadIdle /\ TokenIdle
SpecBeats == InitBeats /\ [][BeatNext]_vars

\* metronomeApp's settings screens
InitSettings == MoverIdle /\ ViewerInit /\ MetronomeIdle /\ BeatIdle /\ DawIdle /\ LoadIdle /\ TokenIdle
SpecSettings == InitSettings /\ [][SettingsNext]_vars

\* the DAW's event loop
InitDaw == MoverIdle /\ ViewerInit /\ MetronomeIdle /\ BeatIdle /\ DawInit /\ LoadIdle /\ TokenIdle
SpecDaw == InitDaw /\ [][DawNext]_vars

\* load_midi on the files a directory can hold
InitLoad == MoverIdle /\ ViewerInit /\ MetronomeIdle /\ BeatIdle /\ DawIdle /\ LoadInit /\ TokenIdle
SpecLoad == InitLoad /\ [][LoadNext]_vars

\* parse_note_token on the tokens of a --notes argument
InitTokens == MoverIdle /\ ViewerInit /\ MetronomeIdle /\ BeatIdle /\ DawIdle /\ LoadIdle /\ TokenInit
SpecTokens == InitTokens /\ [][TokenNext]_vars

\* ------------------------------------------------------------- claims
\* { pitch(n) : start(n) <= t <= end(n) }
SoundingSet(ns, t) ==
    {ns[i].pitch : i \in {j \in 1..Len(ns) : ns[j].start <= t /\ t <= ns[j].end}}

OutsideEveryNote(ns, t) == \A i \in 1..Len(ns) : t < ns[i].start \/ ns[i].end < t

\* C1: on every playback frame at time t the sounding set is exactly
\* { pitch(n) : start(n) <= t <= end(n) }, both bounds inclusive, one entry per
\* pitch; it is empty whenever t lies outside every note's [start, end].
C1_SoundingSetExact ==
    step = "frame" =>
        /\ playing_pitches = SoundingSet(notes, current_time)
        /\ (OutsideEveryNote(notes, current_time) => playing_pitches = {})

\* a frame at the end time of one note while a second note of the same pitch
\* sounds too: one entry
C1_Witness ==
    /\ step = "frame"
    /\ \E i, j \in 1..Len(notes) :
          /\ i /= j
          /\ notes[i].pitch = notes[j].pitch
          /\ notes[i].end = current_time
          /\ notes[j].start <= current_time /\ current_time <= notes[j].end
          /\ playing_pitches = {notes[i].pitch}

\* C2: on every frame turned_on = current - previous, turned_off = previous -
\* current, the current set becomes the previous set; turned_on and turned_off
\* are disjoint, turned_on is within the current set, turned_off outside it.
C2_EdgeDetector ==
    [][step' = "frame" =>
          /\ new_on' = playing_pitches' \ prev_playing
          /\ new_off' = prev_playing \ playing_pitches'
          /\ prev_playing' = playing_pitches'
          /\ new_on' \cap new_off' = {}
          /\ new_on' \subseteq playing_pitches'
          /\ new_off' \cap playing_pitches' = {}]_vars

\* a frame with an on-edge and an off-edge at once
C2_Witness == step = "frame" /\ new_on /= {} /\ new_off /= {}

\* the calls the claim asks for: one per edge, on the mapped pitch
ExpectedCalls(m, on, off) ==
    {[op |-> "on", src |-> p, out |-> MapGet(m, p, p)] : p \in on}
    \cup {[op |-> "off", src |-> p, out |-> MapGet(m, p, p)] : p \in off}

\* C3: with a sound backend active, every not-sounding -> sounding transition
\* of a pitch sends exactly one note-on and every sounding -> not-sounding
\* transition exactly one note-off, on the mapped pitch, and nothing is sent for
\* a pitch without an edge in the frame.
C3_OneCallPerEdge ==
    (step = "frame" /\ (midi_out \/ fs_ready)) =>
        sent = ExpectedCalls(mapped_notes, new_on, new_off)

NonOverlapping(ns) ==
    \A i, j \in 1..Len(ns) :
        (i /= j /\ ns[i].pitch = ns[j].pitch) =>
            (ns[i].end < ns[j].start \/ ns[j].end < ns[i].start)

\* C4: once the playback time has passed the last note end the sounding set is
\* empty, and a playing run is flagged finished (is_playing set to False by the
\* end-of-play branch) only END_WAIT_SECONDS after its playback time reached the
\* end, not earlier; the flagging ends the run, so it happens once.
C4_FinishedAfterEndWait ==
    (mca_step = "frame" /\ Loaded(loaded_info)) =>
        LET end_time == mca_load_midi(loaded_info).end_time IN
        /\ (mca_current_time > end_time => mca_playing_pitches = {})
        /\ (mca_finished =>
               mca_current_time >= end_time + HalfSeconds(MCA_END_WAIT_SECONDS))

\* C5: in a run (time never decreasing) over notes without same-pitch overlap,
\* a pitch has an on-edge in at most one frame inside each note interval.
C5_OneOnEdgePerInterval ==
    NonOverlapping(notes) => \A i \in 1..Len(notes) : on_count[i] <= 1

\* pitch 60 of repeat.mid got its on-edge in both of its intervals, and this
\* frame is a later one inside the second interval
C5_Witness ==
    /\ step = "frame"
    /\ NonOverlapping(notes)
    /\ on_count[1] = 1 /\ on_count[2] = 1
    /\ notes[1].pitch = notes[2].pitch
    /\ notes[2].pitch \in playing_pitches
    /\ notes[2].pitch \notin new_on

\* C6: after a frame, another frame with the same sounding set has no on-edge
\* and no off-edge.
C6_Idempotent ==
    [][(step = "frame" /\ pc = "playing" /\ step' = "frame"
        /\ playing_pitches' = playing_pitches)
       => (new_on' = {} /\ new_off' = {})]_vars

\* a frame without edges while something sounds
C6_Witness ==
    step = "frame" /\ playing_pitches /= {} /\ new_on = {} /\ new_off = {}

\* C7: the scenario's notes with frames at 0.2, 0.7, 1.2, 1.6 s from an empty
\* previous set: sounding {60}, {60,64}, {64}, {}; on-edge {64} at 0.7, off-edge
\* {60} at 1.2, off-edge {64} at 1.6.
C7_Scenario ==
    /\ scen_step = 1 => playing_pitches = {60}
    /\ scen_step = 2 => (playing_pitches = {60, 64} /\ new_on = {64})
    /\ scen_step = 3 => (playing_pitches = {64} /\ new_off = {60})
    /\ scen_step = 4 => (playing_pitches = {} /\ new_off = {64})

\* the four frames of the scenario have run
C7_Witness == step = "frame" /\ scen_step = 4 /\ current_time = 16

\* threads started and not yet ended
AliveThreads == {i \in ThreadIds : th_pc[i] \notin {"unborn", "done"}}

\* C8: at most one metronome thread is alive at any moment, and the clicks of
\* two metronome threads never interleave.
C8_SingleMetronome == Cardinality(AliveThreads) <= 1 /\ ~interleaved

\* C9: no click is played and no beat display update is made by a thread
\* after its stop event has been set.
C9_NoTickAfterStop == \A i \in ThreadIds : late_ticks[i] = 0

\* C10: a running thread whose stop event is set eventually ends, and a
\* thread that has ended has run its finally block exactly once.
C10_StopTerminates ==
    /\ \A i \in ThreadIds : (i \in AliveThreads /\ ev_set[i]) ~> (th_pc[i] = "done")
    /\ [](\A i \in ThreadIds :
            /\ final_runs[i] <= 1
            /\ (th_pc[i] = "done" <=> final_runs[i] = 1))

\* a thread that ticked was stopped by its Event and has ended
C10_Witness ==
    \E i \in ThreadIds :
        /\ last_click = i
        /\ ev_set[i]
        /\ th_pc[i] = "done"
        /\ final_runs[i] = 1

NoteStep ==
    \/ \E key \in DawKeys \ {"ESCAPE", "r", "s", "x"} : KeyDown(key)
    \/ DawKeyUp
    \/ DawMouseDown
    \/ DawMouseUp

\* C12: R while not recording turns recording on with an empty recorded_events,
\* R while recording turns it off and keeps the events; play_note and stop_note
\* append exactly one event while recording and leave recorded_events unchanged
\* while not recording.
C12_RecordToggle ==
    [][/\ KeyDown("r") =>
             IF recording THEN ~recording' /\ recorded_events' = recorded_events
             ELSE recording' /\ recorded_events' = <<>>
       /\ NoteStep =>
             IF recording
             THEN /\ Len(recorded_events') = Len(recorded_events) + 1
                  /\ SubSeq(recorded_events', 1, Len(recorded_events)) = recorded_events
             ELSE recorded_events' = recorded_events]_vars

\* a recording was stopped with its events kept, and a note played afterwards
\* was not recorded
C12_Witness ==
    /\ ~recording
    /\ Len(recorded_events) = 2
    /\ daw_midi = <<"note_on", 60, 100>>
    /\ recorded_events[2].kind = "off"

\* C13: for every key of KEYBOARD_MAP, s and x included, KEYDOWN plays the note
\* START_MIDI_NOTE + offset (added to pressed, note-on sent) and KEYUP stops that
\* note.
C13_MappedKeysPlay ==
    [][\A key \in DawKeys \cap DOMAIN KEYBOARD_MAP :
          LET midi_note == START_MIDI_NOTE + KEYBOARD_MAP[key] IN
          /\ KeyDown(key) => /\ pressed' = pressed \cup {midi_note}
                             /\ daw_midi' = <<"note_on", midi_note, 100>>
          /\ KeyUp(key) => /\ pressed' = pressed \ {midi_note}
                           /\ daw_midi' = <<"note_off", midi_note, 0>>]_vars

\* the claim's pairing: an "off" takes the most recent unmatched "on" of its pitch
RECURSIVE PairLastLoop(_, _, _, _)
PairLastLoop(events, i, on_stack, inst_notes) ==
    IF i > Len(events) THEN inst_notes
    ELSE LET e == events[i]
             st == on_stack[e.note] IN
         IF e.kind = "on"
         THEN PairLastLoop(events, i + 1,
                           [on_stack EXCEPT ![e.note] = Append(@, <<e.t, e.vel>>)],
                           inst_notes)
         ELSE IF st /= <<>>
              THEN PairLastLoop(events, i + 1,
                                [on_stack EXCEPT ![e.note] = SubSeq(st, 1, Len(st) - 1)],
                                Append(inst_notes,
                                       PmNote(st[Len(st)][2], e.note, st[Len(st)][1], e.t)))
              ELSE PairLastLoop(events, i + 1, on_stack, inst_notes)

\* C14: midi_save_recording pairs each note-off with the most recent unmatched
\* note-on of the same pitch and writes one note per pair, with the on time, the
\* off time and the on event's velocity.
C14_PairsWithLastOn ==
    [][(KeyDown("s") /\ recorded_events /= <<>>) =>
          saved_notes'.notes =
              PairLastLoop(recorded_events, 1, [n \in DawNotes |-> <<>>], <<>>)]_vars

\* C15: apply_beats_setting returns True and sets num_beats to the entered value
\* iff the entry is an integer in 1..8, and then every accented beat lies in
\* 1..num_beats; for every other entry it returns False and leaves num_beats and
\* accented_beats unchanged.
C15_ApplyBeats ==
    [][ApplyBeats =>
          LET r == ParseInt(beats_entry) IN
          IF r.ok /\ r.val \in 1..BeatsLimit
          THEN /\ apply_ret' = "True"
               /\ num_beats' = r.val
               /\ accented_beats' \subseteq 1..num_beats'
          ELSE /\ apply_ret' = "False"
               /\ UNCHANGED <<num_beats, accented_beats>>]_vars

LoadedPitches == {ld_notes[k].pitch : k \in 1..Len(ld_notes)}
LoadedEnds == {ld_notes[k].end : k \in 1..Len(ld_notes)}

\* C16: load_midi returns the minimum pitch, the maximum pitch and the maximum
\* note end of the file's notes, and num_keys = highest - lowest + 1; without
\* notes it returns 60..72 and end time 0 (MusicCompanionApp) or 21..108 and
\* 60 s (mover); num_keys >= 1 always, so the line spacing never divides by zero.
C16_LoadRange ==
    ld_loaded =>
        /\ IF ld_notes /= <<>>
           THEN /\ ld_info.lowest \in LoadedPitches
                /\ \A p \in LoadedPitches : ld_info.lowest <= p
                /\ ld_info.highest \in LoadedPitches
                /\ \A p \in LoadedPitches : p <= ld_info.highest
                /\ ld_info.end_time \in LoadedEnds
                /\ \A e \in LoadedEnds : e <= ld_info.end_time
           ELSE IF ld_app = "MusicCompanionApp"
                THEN ld_info.lowest = 60 /\ ld_info.highest = 72 /\ ld_info.end_time = 0
                ELSE ld_info.lowest = 21 /\ ld_info.highest = 108
                     /\ ld_info.end_time = Ticks(60)
        /\ ld_info.num_keys = ld_info.highest - ld_info.lowest + 1
        /\ ld_info.num_keys >= 1
        /\ ld_info.highest - ld_info.lowest + 1 /= 0

\* MusicCompanionApp has loaded a file whose notes all have one pitch
C16_Witness ==
    /\ ld_loaded
    /\ ld_app = "MusicCompanionApp"
    /\ Len(ld_notes) = 2
    /\ ld_info.lowest = 127
    /\ ld_info.num_keys = 1

\* what the claim expects for each DURATION part: the five words in any case
\* and with blanks around them, numbers as given, 1.0 for any other word, for
\* an empty duration and for a duration with a second ':'; inf and nan are
\* numbers of float() and are used as given
ExpectedQlen(d) ==
    CASE d = <<"w", "h", "o", "l", "e">> -> Qlen(400)
      [] d = <<"h", "a", "l", "f">> -> Qlen(200)
      [] d = <<"q", "u", "a", "r", "t", "e", "r">> -> Qlen(100)
      [] d = <<"e", "i", "g", "h", "t", "h">> -> Qlen(50)
      [] d = <<"s", "i", "x", "t", "e", "e", "n", "t", "h">> -> Qlen(25)
      [] d = <<" ", "W", "H", "O", "L", "E", " ">> -> Qlen(400)
      [] d = <<"H", "a", "l", "f">> -> Qlen(200)
      [] d = <<"S", "i", "x", "t", "e", "e", "n", "t", "h">> -> Qlen(25)
      [] d = <<"0", ".", "5">> -> Qlen(50)
      [] d = <<" ", "0", ".", "2", "5", " ">> -> Qlen(25)
      [] d = <<"2">> -> Qlen(200)
      [] d = <<"-", "1">> -> Qlen(-100)
      [] d = <<".", "5">> -> Qlen(50)
      [] d = <<"a", "b", "c">> -> Qlen(100)
      [] d = <<>> -> Qlen(100)
      [] d = <<"h", "a", "l", "f", ":", "x">> -> Qlen(100)
      [] d = <<"q">> -> Qlen(100)
      [] d = <<"i", "n", "f">> -> SpecialQlen("inf")
      [] d = <<"N", "a", "N">> -> SpecialQlen("nan")

\* the NAME part without the blanks around it
ExpectedName(n) ==
    CASE n = <<"C", "4">> -> <<"C", "4">>
      [] n = <<" ", "C", "4">> -> <<"C", "4">>
      [] n = <<"G", "#", "3", " ">> -> <<"G", "#", "3">>
      [] n = <<" ", "B", "-", "2", " ">> -> <<"B", "-", "2">>
      [] n = <<>> -> <<>>
      [] n = <<"c", "5">> -> <<"c", "5">>
      [] n = <<"E", " ", "4">> -> <<"E", " ", "4">>

\* C17: parse_note_token returns for every token (it never raises); NAME:DURATION
\* gives (NAME, quarterLength) with whole 4.0, half 2.0, quarter 1.0, eighth 0.5,
\* sixteenth 0.25, case-insensitive and stripped, a numeric duration as given, a
\* token without ':' a quarter, the split at the first ':' only and an
\* unrecognised duration word 1.0.
C17_ParseNoteToken ==
    tk_parsed =>
        /\ \A n \in TokenNames :
              tk_token = n => tk_result = [name |-> ExpectedName(n), qlen |-> Qlen(100)]
        /\ \A n \in TokenNames, d \in TokenDurations :
              tk_token = n \o <<":">> \o d =>
                  tk_result = [name |-> ExpectedName(n), qlen |-> ExpectedQlen(d)]
        /\ tk_token \in Tokens

\* a token with two ':' was split at the first one
C17_Witness ==
    /\ tk_parsed
    /\ tk_token = <<" ", "B", "-", "2", " ", ":", "h", "a", "l", "f", ":", "x">>
    /\ tk_result = [name |-> <<"B", "-", "2">>, qlen |-> Qlen(100)]

\* C18: with a MIDI-out or FluidSynth backend every note-on of a playback run is
\* followed by a note-off for the same output pitch before or when the run ends,
\* whatever ends it (finished, dropdown reload, quit): no note is left sounding
\* when prev_playing is reset for the next run.
C18_NoNoteLeftSounding ==
    ((midi_out \/ fs_ready) /\ pc /= "playing") => unmatched_on = {}

\* C19: the viewer's end-of-piece handler sets is_playing to False only when the
\* playback time of the current run has reached end_time; after any Load, Play
\* and Stop clicks a run is never stopped by an end timer armed in an earlier
\* run or while stopped.
C19_NoStaleEndTimer ==
    (mca_step = "frame" /\ Loaded(loaded_info) /\ mca_finished) =>
        mca_current_time >= mca_load_midi(loaded_info).end_time
====
